---------------------------- MODULE Spec2Model ----------------------------
(***************************************************************************)
(* PyNFG: the DecisionNode class (classes/decisionnode.py) and the Level-K *)
(* best-response solver (levelksolutions/bestresponse.py).                 *)
(*                                                                         *)
(* A game is a set of decision nodes.  Every node is a Python object,      *)
(* modelled as a record of its attributes (an attribute that was never     *)
(* assigned is not in the record's domain: reading it is AttributeError).  *)
(* A CPT is a numpy array whose last axis is the node's own space; it is   *)
(* modelled as the sequence of its trailing-axis slices (rows), one per    *)
(* parent configuration, of exact rationals <<numerator, denominator>>.    *)
(***************************************************************************)
EXTENDS Integers, Sequences, FiniteSets

VARIABLES graphs,   \* graph id -> (node name -> node object), or NoGraph
          br,       \* the BestResponse object, or NoSession
          pc,       \* position inside a running solve_game, or Idle
          ret,      \* outcome of the last call: what it returned or raised
          est,      \* the last invocation of the estimator mceu
          calls     \* number of calls made so far, per kind of call

vars == <<graphs, br, pc, ret, est, calls>>

---------------------------------------------------------------------------
(* Bounds of the model *)

\* randomCPT draws its integers from [1, M); the source's M is 100000000,
\* scaled down here so that every draw can be enumerated.
M == 3
\* noise values are multiples of 1/Grid, the uniform draws of np.random.rand
\* multiples of 1/(2 Grid)
Grid == 2
\* highest level a configuration asks for, and highest level of a train_node call
MaxLevel == 2
\* calls per behaviour: CPT generators, train_node, solve_game
MaxGen == 1
MaxTrain == 1
MaxSolve == 1
\* calls per behaviour of a session whose caller also perturbs the nodes of
\* the solver's graph: train_node, solve_game and perturbCPT together
MaxOwnedCalls == 2

---------------------------------------------------------------------------
(* Exact rationals *)

RECURSIVE GCD(_, _)
GCD(a, b) == IF b = 0 THEN a ELSE GCD(b, a % b)

Rat(n, d) == LET g == GCD(n, d) IN <<n \div g, d \div g>>
Zero == <<0, 1>>
One == <<1, 1>>
RAdd(a, b) == Rat(a[1] * b[2] + b[1] * a[2], a[2] * b[2])
RMul(a, b) == Rat(a[1] * b[1], a[2] * b[2])
RGeq(a, b) == a[1] * b[2] >= b[1] * a[2]
RGt(a, b) == a[1] * b[2] > b[1] * a[2]

RECURSIVE SumTo(_, _)
SumTo(row, j) == IF j = 0 THEN Zero ELSE RAdd(SumTo(row, j - 1), row[j])
\* np.sum(row) and np.cumsum(row)
RowSum(row) == SumTo(row, Len(row))
CumSum(row) == [j \in 1..Len(row) |-> SumTo(row, j)]

---------------------------------------------------------------------------
(* The game: two decision nodes, D2 a child of D1 *)

DNodes == {"D1", "D2"}
Player(n) == IF n = "D1" THEN "p1" ELSE "p2"
Players == <<"p1", "p2">>
Partition(p) == IF p = "p1" THEN <<"D1">> ELSE <<"D2">>
\* values: a Python number s, and a numpy array of numbers a
Num(s) == <<"number", s>>
Arr(a) == <<"array", a>>
IsArray(v) == v[1] = "array"
\* (a == b).all() of numpy, one of a, b at least an array: elementwise on two
\* arrays of one shape; a number is broadcast against every element of an
\* array
AllEq(a, b) ==
    IF IsArray(a) /\ IsArray(b) THEN a[2] = b[2]
    ELSE IF IsArray(a) THEN \A i \in 1..Len(a[2]) : a[2][i] = b[2]
    ELSE IF IsArray(b) THEN \A i \in 1..Len(b[2]) : b[2][i] = a[2]
    ELSE a[2] = b[2]

\* D1 has a space of Python numbers, D2 a space of arrays
NodeSpace(n) == IF n = "D1" THEN <<Num(10), Num(20)>>
                ELSE <<Arr(<<0, 1>>), Arr(<<1, 0>>), Arr(<<1, 1>>)>>
Parents(n) == IF n = "D1" THEN <<>> ELSE <<"D1">>
\* values a caller may hand to set_value: the space, a value of the kind of
\* the space outside it, and values of the other kind, an array on the space
\* of numbers and a number on the space of arrays
Candidates(n) == IF n = "D1"
                 THEN {Num(10), Num(20), Num(30), Arr(<<10, 10>>), Arr(<<10, 20>>)}
                 ELSE {Arr(<<0, 1>>), Arr(<<1, 0>>), Arr(<<1, 1>>), Arr(<<0, 0>>),
                       Num(1), Num(0)}

K(n) == Len(NodeSpace(n))
\* number of parent configurations: the product of the parents' space sizes
NConf(n) == IF Parents(n) = <<>> THEN 1 ELSE Len(NodeSpace(Parents(n)[1]))


---------------------------------------------------------------------------
(* numpy arrays *)

\* np.zeros(shape): shape is <<number of rows, length of the last axis>>
ZerosOf(shape) == [i \in 1..shape[1] |-> [j \in 1..shape[2] |-> Zero]]
\* array.shape (every CPT has at least one row)
Shape(cpt) == <<Len(cpt), Len(cpt[1])>>
\* array.any()
Any(cpt) == \E i \in 1..Len(cpt) : \E j \in 1..Len(cpt[i]) : cpt[i][j] # Zero
\* row.argmax(): the first index of the largest entry
ArgMax(row) ==
    CHOOSE j \in 1..Len(row) :
        /\ \A h \in 1..Len(row) : RGeq(row[j], row[h])
        /\ \A h \in 1..(j - 1) : RGt(row[j], row[h])

\* np.sort of a sequence of integers
RECURSIVE Insert(_, _)
Insert(s, x) == IF s = <<>> THEN <<x>>
                ELSE IF x <= Head(s) THEN <<x>> \o s
                ELSE <<Head(s)>> \o Insert(Tail(s), x)
RECURSIVE SortSeq(_)
SortSeq(s) == IF s = <<>> THEN <<>> ELSE Insert(SortSeq(Tail(s)), Head(s))

\* the equality rule between a value and a space element, as set_value
\* codes it (lines 374-380): == on two Python numbers, else (v == y).all()
Matches(v, y) == IF ~IsArray(v) /\ ~IsArray(y) THEN v = y ELSE AllEq(v, y)

\* the position of v in a space, as get_CPTindex finds it: the first position
\* whose element equals v under the equality rule; 0 if none
IndexIn(space, v) ==
    IF \E i \in 1..Len(space) : Matches(v, space[i])
    THEN CHOOSE i \in 1..Len(space) :
             Matches(v, space[i]) /\ \A h \in 1..(i - 1) : ~Matches(v, space[h])
    ELSE 0

---------------------------------------------------------------------------
(* DecisionNode: construction and lookups *)

\* keys of the LevelCPT dictionary: 'Level' + str(level)
Key(level) == <<"Level", level>>
\* no LevelCPT entry is the same array object as the node's CPT
NoKey == <<>>

\* _createCPT: zeros of shape (parents' space sizes..., own space size)
CreateCPT(n) == ZerosOf(<<NConf(n), K(n)>>)

\* __init__: a zero CPT, the first space element as value.  "shared" is not
\* an attribute: it records object identity, the key of the LevelCPT entry
\* that is the very same array object as CPT (NoKey when there is none).
NewNode(n) == [CPT |-> CreateCPT(n), value |-> NodeSpace(n)[1], shared |-> NoKey]

\* (no guard)
JustZerosNever(cpt) == FALSE
\* the guard of draw_value and prob: not self.CPT.any()
JustZeros(cpt) == ~Any(cpt)

\* get_CPTindex(..., onlyparents=True): the row of the CPT selected by the
\* parents' values, each taken from parentinput or else from the parent's
\* current value
ParentConf(G, n, parentinput) ==
    IF Parents(n) = <<>> THEN 1
    ELSE LET par == Parents(n)[1]
             v == IF par \in DOMAIN parentinput THEN parentinput[par]
                  ELSE G[par].value
         IN IndexIn(NodeSpace(par), v)

\* parentinput dictionaries: values of the space for any subset of the parents
ParentInputs(n) ==
    {[x \in {} |-> 0]} \cup
    (IF Parents(n) = <<>> THEN {}
     ELSE {[x \in {Parents(n)[1]} |-> NodeSpace(Parents(n)[1])[i]] :
              i \in 1..Len(NodeSpace(Parents(n)[1]))})

\* draw_value, the index drawn: the first index whose cumulative sum reaches
\* the cutoff (0 when there is none: [0][0] raises IndexError), or the argmax
DrawIndex(row, mode, cutoff) ==
    IF mode THEN ArgMax(row)
    ELSE LET cdf == CumSum(row)
             hit == {j \in 1..Len(row) : RGeq(cdf[j], cutoff)}
         IN IF hit = {} THEN 0
            ELSE CHOOSE j \in hit : \A h \in hit : j <= h

\* set_value, lines 374-384, the test that accepts newvalue.  When
\* newvalue == self.space[0] is a bool (two Python numbers) the test is
\* "newvalue in self.space"; otherwise it is any((newvalue==y).all() for y
\* in self.space), in which numpy broadcasts a number against an array
InSpace(n, newvalue) ==
    IF ~IsArray(newvalue) /\ ~IsArray(NodeSpace(n)[1])
    THEN \E i \in 1..K(n) : NodeSpace(n)[i] = newvalue
    ELSE \E i \in 1..K(n) : AllEq(newvalue, NodeSpace(n)[i])

---------------------------------------------------------------------------
(* DecisionNode: CPT generators *)

\* randomCPT(mixed=False): y[i] in 0..k-1 is the index given weight 1 in row i
PureCPT(shape, y) ==
    [i \in 1..shape[1] |-> [j \in 1..shape[2] |-> IF j - 1 = y[i] THEN One ELSE Zero]]
PureDraws(shape) == [1..shape[1] -> 0..(shape[2] - 1)]

\* randomCPT(mixed=True): x[i] are the k-1 integers drawn from [1, M) for row
\* i; the row is the differences of sorted <<0, x..., M>>, divided by M
MixedRow(xs) ==
    LET yy == SortSeq(<<0>> \o xs \o <<M>>)
    IN [j \in 1..(Len(yy) - 1) |-> Rat(yy[j + 1] - yy[j], M)]
MixedCPT(shape, x) == [i \in 1..shape[1] |-> MixedRow(x[i])]
MixedDraws(shape) == [1..shape[1] -> [1..(shape[2] - 1) -> 1..(M - 1)]]

\* uniformCPT: zeros + 1/k
UniformOf(shape) == [i \in 1..shape[1] |-> [j \in 1..shape[2] |-> Rat(1, shape[2])]]

\* noise values: the multiples of 1/Grid in [0, 1]
Noises == {Rat(a, Grid) : a \in 0..Grid}
\* values of np.random.rand(): the multiples of 1/(2 Grid) in [0, 1), so that
\* a draw can fall above a row sum that a noise value has produced
Cutoffs == {Rat(a, 2 * Grid) : a \in 0..(2 * Grid - 1)}
OneMinus(noise) == Rat(noise[2] - noise[1], noise[2])

\* perturbCPT(mixed=True): current*(1-noise) + random*noise on one row
BlendRow(cur, rand, noise) ==
    [j \in 1..Len(cur) |-> RAdd(RMul(cur[j], OneMinus(noise)), RMul(rand[j], noise))]
\* ... over the whole array
BlendAll(cpt, randCPT, noise) ==
    [i \in 1..Len(cpt) |-> BlendRow(cpt[i], randCPT[i], noise)]
\* ... over the sliver only: z[indo] = z[indo]*(1-noise) + randCPT[indo]*noise.
\* A node without parents has indo = (), which selects the whole array.
BlendSliver(cpt, randCPT, noise, indo) ==
    [i \in 1..Len(cpt) |->
        IF i = indo THEN BlendRow(cpt[i], randCPT[i], noise) ELSE cpt[i]]

\* sliver dictionaries (non-empty): a value for the parent, or only a key
\* that names no parent (every parent then falls back to its current value)
Slivers(n) ==
    {[x \in {"other"} |-> Num(0)]} \cup (ParentInputs(n) \ {[x \in {} |-> 0]})

\* the elements of the node's space are numpy arrays
NumpySpace(n) == IsArray(NodeSpace(n)[1])

\* perturbCPT lines 271-282: the row a sliver selects, <<"none", indo>>.  The
\* index of each parent is truth.index(True) over
\* truth = [(x==v).all() for x in self.parents[par].space], v taken from the
\* sliver or else the parent's current value.  When x and v are both Python
\* numbers x == v is a bool, which has no .all(): AttributeError.  index
\* raises ValueError when no element equals v.  A node without parents has
\* indo = ().
SliverConf(G, n, sliver) ==
    IF Parents(n) = <<>> THEN <<"none", 1>>
    ELSE LET par == Parents(n)[1]
             space == NodeSpace(par)
             v == IF par \in DOMAIN sliver THEN sliver[par] ELSE G[par].value
             truth == {i \in 1..Len(space) : AllEq(space[i], v)}
         IN IF ~NumpySpace(par) /\ ~IsArray(v) THEN <<"AttributeError", 0>>
            ELSE IF truth = {} THEN <<"ValueError", 0>>
            ELSE <<"none", CHOOSE i \in truth : \A h \in truth : i <= h>>

---------------------------------------------------------------------------
(* State shared by all operations *)

\* Python's None
None == <<>>
\* the last call: the operation, the node it was made on, what its arguments
\* asked for, the exception it raised ("none" if it returned) and the value
\* it returned
Outcome(op, n, arg, err, val) ==
    [op |-> op, node |-> n, arg |-> arg, err |-> err, val |-> val]
NoCall == Outcome("none", "none", None, "none", None)
\* no estimator call yet
NoEst == [node |-> "none", level |-> 0, live |-> <<>>]
\* no solve_game running
Idle == [phase |-> "idle", idx |-> 0, setCPT |-> FALSE, trained |-> {}]
\* no BestResponse object
NoSession == [live |-> FALSE]

\* self.CPT = z: the attribute is bound to a new array object
Rebind(node, z) == [node EXCEPT !.CPT = z, !.shared = NoKey]
\* z = self.CPT; z[indo] = ...: the array object is changed in place, and
\* with it every LevelCPT entry that is the same object
InPlace(node, z) ==
    IF node.shared = NoKey THEN [node EXCEPT !.CPT = z]
    ELSE [node EXCEPT !.CPT = z, !.LevelCPT = [@ EXCEPT ![node.shared] = z]]

PutNode(g, n, node) == [graphs EXCEPT ![g][n] = node]
Count(kind) == [calls EXCEPT ![kind] = @ + 1]

---------------------------------------------------------------------------
(* DecisionNode operations, on node n of graph g *)

\* set_value(newvalue), lines 360-384
SetValue(g, n, newvalue) ==
    /\ pc.phase = "idle"
    /\ IF InSpace(n, newvalue)
       THEN /\ graphs' = PutNode(g, n, [graphs[g][n] EXCEPT !.value = newvalue])
            /\ ret' = Outcome("set_value", n, [newvalue |-> newvalue], "none", None)
       ELSE /\ graphs' = graphs
            /\ ret' = Outcome("set_value", n, [newvalue |-> newvalue], "ValueError", None)
    /\ UNCHANGED <<br, pc, est, calls>>

\* draw_value(parentinput, setvalue, mode), lines 159-175; cutoff is the
\* number np.random.rand() returns
DrawValue(g, n, parentinput, setvalue, mode, cutoff) ==
    LET node == graphs[g][n]
        indo == ParentConf(graphs[g], n, parentinput)
        idx == DrawIndex(node.CPT[indo], mode, cutoff)
        r == NodeSpace(n)[idx]
        arg == [indo |-> indo, setvalue |-> setvalue, mode |-> mode]
    IN /\ pc.phase = "idle"
       /\ IF JustZeros(node.CPT)
          THEN /\ graphs' = graphs
               /\ ret' = Outcome("draw_value", n, arg, "AttributeError", None)
          ELSE IF idx = 0
          THEN /\ graphs' = graphs
               /\ ret' = Outcome("draw_value", n, arg, "IndexError", None)
          ELSE /\ graphs' = IF setvalue
                            THEN PutNode(g, n, [node EXCEPT !.value = r])
                            ELSE graphs
               /\ ret' = Outcome("draw_value", n, arg, "none", r)
       /\ UNCHANGED <<br, pc, est, calls>>

\* prob(parentinput, valueinput), lines 321-326: the CPT entry of valueinput,
\* or of the current value when valueinput is None
ProbOf(G, n, parentinput, valueinput) ==
    LET v == IF valueinput = <<>> THEN G[n].value ELSE valueinput[1]
    IN G[n].CPT[ParentConf(G, n, parentinput)][IndexIn(NodeSpace(n), v)]

\* valueinput arguments: None, written <<>>, or an element v of the space,
\* written <<v>>
ValueInputs(n) == {<<>>} \cup {<<NodeSpace(n)[i]>> : i \in 1..K(n)}

Prob(g, n, parentinput, valueinput) ==
    /\ pc.phase = "idle"
    /\ ret' = IF JustZeros(graphs[g][n].CPT)
              THEN Outcome("prob", n, None, "RuntimeError", None)
              ELSE Outcome("prob", n, None, "none",
                           ProbOf(graphs[g], n, parentinput, valueinput))
    /\ UNCHANGED <<graphs, br, pc, est, calls>>

\* np.log(r): minus infinity at 0
Log(r) == IF r = Zero THEN <<"-inf">> ELSE <<"log", r>>

\* logprob(parentinput, valueinput), lines 357-358
LogProb(g, n, parentinput, valueinput) ==
    /\ pc.phase = "idle"
    /\ ret' = IF JustZeros(graphs[g][n].CPT)
              THEN Outcome("logprob", n, None, "RuntimeError", None)
              ELSE Outcome("logprob", n, None, "none",
                           Log(ProbOf(graphs[g], n, parentinput, valueinput)))
    /\ UNCHANGED <<graphs, br, pc, est, calls>>

\* the end of every generator, "if setCPT: self.CPT = z else: return z",
\* for a freshly made array z
SetOrReturn(g, n, op, arg, z) ==
    IF arg.setCPT
    THEN /\ graphs' = PutNode(g, n, Rebind(graphs[g][n], z))
         /\ ret' = Outcome(op, n, arg, "none", None)
    ELSE /\ graphs' = graphs
         /\ ret' = Outcome(op, n, arg, "none", z)

\* uniformCPT(setCPT), lines 223-228
UniformCPT(g, n, setCPT) ==
    /\ pc.phase = "idle"
    /\ calls.gen < MaxGen
    /\ SetOrReturn(g, n, "uniformCPT", [setCPT |-> setCPT],
                   UniformOf(Shape(graphs[g][n].CPT)))
    /\ calls' = Count("gen")
    /\ UNCHANGED <<br, pc, est>>

\* randint.rvs(0, shape_last, size=other_dims), line 197, returns an array
\* when other_dims names at least one axis; for a node without parents
\* other_dims is () and rvs returns a Python int
RvsIsArray(n) == Parents(n) # <<>>

\* randomCPT(mixed, setCPT), lines 192-212.  Line 198 reads y.size, which a
\* Python int has not: the pure CPT of a node without parents is never made.
RandomCPT(g, n, mixed, setCPT) ==
    LET shape == Shape(graphs[g][n].CPT)
        arg == [mixed |-> mixed, setCPT |-> setCPT]
    IN /\ pc.phase = "idle"
       /\ calls.gen < MaxGen
       /\ IF mixed
          THEN \E x \in MixedDraws(shape) :
                  SetOrReturn(g, n, "randomCPT", arg, MixedCPT(shape, x))
          ELSE IF ~RvsIsArray(n)
          THEN /\ graphs' = graphs
               /\ ret' = Outcome("randomCPT", n, arg, "AttributeError", None)
          ELSE \E y \in PureDraws(shape) :
                  SetOrReturn(g, n, "randomCPT", arg, PureCPT(shape, y))
       /\ calls' = Count("gen")
       /\ UNCHANGED <<br, pc, est>>

\* perturbCPT(noise, mixed=True, sliver, setCPT), lines 266-288.  An empty
\* sliver is "not sliver": the whole array is perturbed into a new array.
\* With a sliver, z is the CPT array itself and is changed in place, unless
\* the lookup of the sliver's row raises.
PerturbCPT(g, n, noise, sliver, setCPT) ==
    LET node == graphs[g][n]
        shape == Shape(node.CPT)
        arg == [noise |-> noise, mixed |-> TRUE, sliver |-> sliver, setCPT |-> setCPT]
    IN /\ pc.phase = "idle"
       /\ calls.gen < MaxGen
       /\ \E x \in MixedDraws(shape) :
            LET randCPT == MixedCPT(shape, x)
            IN IF DOMAIN sliver = {}
               THEN SetOrReturn(g, n, "perturbCPT", arg,
                                BlendAll(node.CPT, randCPT, noise))
               ELSE LET conf == SliverConf(graphs[g], n, sliver)
                        z == BlendSliver(node.CPT, randCPT, noise, conf[2])
                    IN IF conf[1] # "none"
                       THEN /\ graphs' = graphs
                            /\ ret' = Outcome("perturbCPT", n, arg, conf[1], None)
                       ELSE /\ graphs' = PutNode(g, n, InPlace(node, z))
                            /\ ret' = Outcome("perturbCPT", n, arg, "none",
                                              IF setCPT THEN None ELSE z)
       /\ calls' = Count("gen")
       /\ UNCHANGED <<br, pc, est>>

\* len(flat)/shape_last, line 259: the module imports division from
\* __future__, so that / is true division and its result a float
TrueDiv(a, b) == [type |-> "float", val |-> a \div b]
\* (xrange taking a float for its integer value)
XRangeAcceptsAny(x) == TRUE
\* xrange(steps), line 260: Python 2.7 raises TypeError for a float argument
XRangeAccepts(x) == x.type = "int"
\* flat[j*k:(j+1)*k-1] = flatalt[j*k:(j+1)*k], lines 262-263: numpy assigns
\* vals values to slots places only if the shapes broadcast
SliceAssignFits(slots, vals) == vals = slots \/ vals = 1
\* the sets of rows j for which np.random.rand() < noise can hold
NoiseHits(steps, noise) ==
    {hits \in SUBSET (1..steps) :
        /\ noise = Zero => hits = {}
        /\ noise = One => hits = 1..steps}

\* perturbCPT(noise, mixed=False, sliver, setCPT), lines 254-265 and 285-288.
\* With a sliver nothing is assigned to z before line 285 reads it.  Without
\* one, line 257 calls randomCPT(mixed=False) first, with the error it has
\* on a node without parents.
PerturbPure(g, n, noise, sliver, setCPT) ==
    LET node == graphs[g][n]
        shape == Shape(node.CPT)
        arg == [noise |-> noise, mixed |-> FALSE, sliver |-> sliver, setCPT |-> setCPT]
        steps == TrueDiv(shape[1] * shape[2], shape[2])
        raise(err) == /\ graphs' = graphs
                      /\ ret' = Outcome("perturbCPT", n, arg, err, None)
    IN /\ pc.phase = "idle"
       /\ calls.gen < MaxGen
       /\ IF DOMAIN sliver # {} THEN raise("UnboundLocalError")
          ELSE IF ~RvsIsArray(n) THEN raise("AttributeError")
          ELSE IF ~XRangeAccepts(steps) THEN raise("TypeError")
          ELSE \E hits \in NoiseHits(steps.val, noise) :
                  IF hits # {} /\ ~SliceAssignFits(shape[2] - 1, shape[2])
                  THEN raise("ValueError")
                  ELSE SetOrReturn(g, n, "perturbCPT", arg, node.CPT)
       /\ calls' = Count("gen")
       /\ UNCHANGED <<br, pc, est>>

\* any DecisionNode operation on graph g
NodeOp(g) ==
    \E n \in DNodes :
        \/ \E v \in Candidates(n) : SetValue(g, n, v)
        \/ \E pin \in ParentInputs(n), sv \in BOOLEAN :
              \/ DrawValue(g, n, pin, sv, TRUE, Zero)
              \/ \E c \in Cutoffs : DrawValue(g, n, pin, sv, FALSE, c)
        \/ \E pin \in ParentInputs(n), v \in ValueInputs(n) : Prob(g, n, pin, v)
        \/ \E pin \in ParentInputs(n), v \in ValueInputs(n) : LogProb(g, n, pin, v)
        \/ \E setCPT \in BOOLEAN : UniformCPT(g, n, setCPT)
        \/ \E mixed \in BOOLEAN, setCPT \in BOOLEAN : RandomCPT(g, n, mixed, setCPT)
        \/ \E noise \in Noises, sl \in {[x \in {} |-> 0]} \cup Slivers(n),
              setCPT \in BOOLEAN :
              \/ PerturbCPT(g, n, noise, sl, setCPT)
              \/ PerturbPure(g, n, noise, sl, setCPT)

---------------------------------------------------------------------------
(* Specification of a game under the DecisionNode operations               *)

\* games as a caller builds them: new nodes, or nodes given a uniform CPT
FreshGame == [n \in DNodes |-> NewNode(n)]
UniformGame == [n \in DNodes |-> Rebind(NewNode(n), UniformOf(Shape(NewNode(n).CPT)))]

InitNode ==
    /\ graphs \in {[g \in {"caller"} |-> game] : game \in {FreshGame, UniformGame}}
    /\ br = NoSession
    /\ pc = Idle
    /\ ret = NoCall
    /\ est = NoEst
    /\ calls = [gen |-> 0, train |-> 0, solve |-> 0]

NextNode == NodeOp("caller")

SpecNode == InitNode /\ [][NextNode]_vars

---------------------------------------------------------------------------
(* BestResponse: configuration and construction *)

\* Python dictionaries: d[k] = v
Put(d, k, v) == [x \in ((DOMAIN d) \ {k}) \cup {k} |-> IF x = k THEN v ELSE d[x]]
\* setting several attributes of an object
SetAttrs(node, attrs) ==
    [a \in ((DOMAIN node) \ (DOMAIN attrs)) \cup (DOMAIN attrs) |->
        IF a \in DOMAIN attrs THEN attrs[a] ELSE node[a]]

\* the nodes of the game in the order of "for player in players: for node
\* in partition[player]"
RECURSIVE NodesFrom(_)
NodesFrom(p) == IF p > Len(Players) THEN <<>>
                ELSE Partition(Players[p]) \o NodesFrom(p + 1)
NodesInOrder == NodesFrom(1)

\* max(levels)
MaxOf(S) == CHOOSE x \in S : \A y \in S : y <= x

\* (self.G = G: the caller's own graph object)
OwnedRefCaller == "caller"
\* self.G = copy.deepcopy(G), line 26: the graph object self.G designates
OwnedRef == "owned"
\* copy.deepcopy: equal contents in new objects; an array that is shared by
\* two attributes of the original is shared by the same two in the copy
DeepCopy(G) == G

\* _set_new_attributes, lines 33-51, on one node: Level and delta of the
\* node's player, tol and N of the node, beta under logit, and an empty
\* LevelCPT unless the node has one
NewAttributes(node, n, specs, logit) ==
    LET ps == specs[Player(n)]
        base == [Level |-> ps.Level, delta |-> ps.delta,
                 tol |-> ps[n].tol, N |-> ps[n].N]
        withBeta == IF logit THEN SetAttrs(base, [beta |-> ps[n].beta]) ELSE base
        withDict == IF "LevelCPT" \in DOMAIN node THEN withBeta
                    ELSE SetAttrs(withBeta, [LevelCPT |-> <<>>])
    IN SetAttrs(node, withDict)

\* the value _set_new_attributes returns: the highest configured level
HighLevel(specs) == MaxOf({specs[p].Level : p \in DOMAIN specs})

\* _set_L0_CPT, lines 53-73, on one node: no effect if 'Level0' is there;
\* 'uniform' stores a new uniform array; None stores the node's own CPT
\* array (the same object); an ndarray is stored as it is
SetL0CPT(node, n, specs) ==
    LET L0Dist == specs[Player(n)][n].L0Dist
    IN IF Key(0) \in DOMAIN node.LevelCPT THEN node
       ELSE IF L0Dist.kind = "uniform"
       THEN [node EXCEPT !.LevelCPT = Put(@, Key(0), UniformOf(Shape(node.CPT)))]
       ELSE IF L0Dist.kind = "None"
       THEN [node EXCEPT !.LevelCPT = Put(@, Key(0), node.CPT), !.shared = Key(0)]
       ELSE IF L0Dist.kind = "ndarray"
       THEN [node EXCEPT !.LevelCPT = Put(@, Key(0), L0Dist.array)]
       ELSE node

\* __init__, lines 25-30
NewBestResponse(G, specs, logit) ==
    LET ref == OwnedRef
        copy == DeepCopy(graphs[G])
        owned == [n \in DOMAIN copy |->
                    SetL0CPT(NewAttributes(copy[n], n, specs, logit), n, specs)]
    IN /\ ~br.live
       /\ graphs' = [g \in (DOMAIN graphs) \cup {ref} |->
                        IF g = ref THEN owned ELSE graphs[g]]
       /\ br' = [live |-> TRUE, G |-> ref, logit |-> logit,
                 high_level |-> HighLevel(specs)]
       /\ ret' = Outcome("__init__", "none", None, "none", None)
       /\ UNCHANGED <<pc, est, calls>>

---------------------------------------------------------------------------
(* BestResponse.train_node *)

\* "for node in G.node_dict", line 90: iterating a dictionary yields its
\* keys, so every item of the loop is a str, the name of a node
LoopItems(G) == {[type |-> "str", name |-> n] : n \in DOMAIN G}
\* "type(node) is pynfg.classes.decisionnode.DecisionNode", line 91
IsDecisionNode(item) == item.type = "DecisionNode"

\* lines 92-96: some item of the loop is a decision node without the entry
\* of the level below
NeedLowerLevel(G, level) ==
    \E item \in LoopItems(G) :
        /\ IsDecisionNode(item)
        /\ Key(level - 1) \notin DOMAIN G[item.name].LevelCPT

\* lines 89-93: the scratch copy handed to the estimator, every node the
\* loop accepts having its CPT replaced by its entry of the level below
Scratch(G, level) ==
    [n \in DOMAIN G |->
        IF \E item \in LoopItems(G) : item.name = n /\ IsDecisionNode(item)
        THEN [G[n] EXCEPT !.CPT = G[n].LevelCPT[Key(level - 1)]]
        ELSE G[n]]

\* what reaches mceu: the node, the level and every node's CPT in the scratch
EstCall(G, nodename, level) ==
    [node |-> nodename, level |-> level,
     live |-> [n \in DOMAIN G |-> Scratch(G, level)[n].CPT]]

\* utilities.convert_2_pureCPT: weight 1 on the first argmax of every row
Convert2PureCPT(EUtable) ==
    [i \in 1..Len(EUtable) |->
        [j \in 1..Len(EUtable[i]) |->
            IF j = ArgMax(EUtable[i]) THEN One ELSE Zero]]

\* np.exp(beta*EUtable), for utilities u and beta both in units that make
\* exp(beta*u) the integer 2^(beta*u)
ExpWeight(beta, EUtable) ==
    [i \in 1..Len(EUtable) |->
        [j \in 1..Len(EUtable[i]) |-> <<2 ^ (beta * EUtable[i][j][1]), 1>>]]
\* weight/norm[..., np.newaxis], lines 106-109
LogitCPT(beta, EUtable) ==
    LET weight == ExpWeight(beta, EUtable)
    IN [i \in 1..Len(weight) |->
          [j \in 1..Len(weight[i]) |->
              Rat(weight[i][j][1], RowSum(weight[i])[1])]]

\* lines 100-111: the policy stored for nodename, from the scratch's beta
TrainedCPT(logit, node, EUtable) ==
    IF logit THEN LogitCPT(node.beta, EUtable) ELSE Convert2PureCPT(EUtable)

\* (a training that always sets the live CPT)
StoreTrainedLive(node, level, policy, setCPT) ==
    Rebind([node EXCEPT !.LevelCPT = Put(@, Key(level), policy)], policy)
\* lines 101-104 and 108-111 on the node of self.G: the entry of the level
\* is bound to a new array; with setCPT the CPT is bound to another new one
StoreTrained(node, level, policy, setCPT) ==
    LET stored == [node EXCEPT !.LevelCPT = Put(@, Key(level), policy),
                               !.shared = IF @ = Key(level) THEN NoKey ELSE @]
    IN IF setCPT THEN Rebind(stored, policy) ELSE stored

\* tables the estimator may return for a node, of the shape of its CPT
Util(u) == <<u, 1>>
EUTables(n) ==
    IF n = "D1" THEN {<<(<<Util(1), Util(1)>>)>>, <<(<<Util(0), Util(1)>>)>>}
    ELSE {<<(<<Util(0), Util(1), Util(1)>>), (<<Util(1), Util(0), Util(0)>>)>>,
          <<(<<Util(0), Util(0), Util(1)>>), (<<Util(0), Util(0), Util(0)>>)>>}
\* the estimator returns a table or raises
MceuOutcomes(n) == {[raised |-> FALSE, EUtable |-> t] : t \in EUTables(n)}
                   \cup {[raised |-> TRUE, EUtable |-> <<>>]}

\* the effect of one call train_node(nodename, level, setCPT) on the graphs,
\* the estimator record and the outcome, lines 89-111
TrainNodeCall(nodename, level, setCPT, out, op) ==
    LET G == graphs[br.G]
        arg == [level |-> level, setCPT |-> setCPT]
    IN IF NeedLowerLevel(G, level)
       THEN /\ ret' = Outcome(op, nodename, arg, "KeyError", level - 1)
            /\ UNCHANGED <<graphs, est>>
       ELSE /\ est' = EstCall(G, nodename, level)
            /\ IF out.raised
               THEN /\ ret' = Outcome(op, nodename, arg, "EstimatorError", None)
                    /\ graphs' = graphs
               ELSE /\ ret' = Outcome(op, nodename, arg, "none", None)
                    /\ graphs' = PutNode(br.G, nodename,
                          StoreTrained(G[nodename], level,
                              TrainedCPT(br.logit, Scratch(G, level)[nodename],
                                         out.EUtable),
                              setCPT))

TrainNode(nodename, level, setCPT) ==
    /\ br.live
    /\ pc.phase = "idle"
    /\ calls.train < MaxTrain
    /\ \E out \in MceuOutcomes(nodename) :
          TrainNodeCall(nodename, level, setCPT, out, "train_node")
    /\ calls' = Count("train")
    /\ UNCHANGED <<br, pc>>

\* a deterministic estimator: its table for a node is a function of the graph
\* it is given, here of whether node e.watch has the CPT e.cpt in that graph
FirstTable(n) == CHOOSE t \in EUTables(n) : TRUE
OtherTable(n) == CHOOSE t \in EUTables(n) : t # FirstTable(n)
DetMceu(e, call) ==
    IF call.live[e.watch] = e.cpt THEN FirstTable(call.node)
    ELSE OtherTable(call.node)
\* the estimators that tell the CPTs now on the nodes of G from other CPTs
Estimators(G) == {[watch |-> w, cpt |-> G[w].CPT] : w \in DOMAIN G}

\* train_node(nodename, level, setCPT) as a function of the graph self.G,
\* lines 89-111, under the estimator e: the graph self.G after the call
TrainOnce(G, logit, nodename, level, setCPT, e) ==
    IF NeedLowerLevel(G, level) THEN G
    ELSE [G EXCEPT ![nodename] =
            StoreTrained(G[nodename], level,
                TrainedCPT(logit, Scratch(G, level)[nodename],
                           DetMceu(e, EstCall(G, nodename, level))),
                setCPT)]

---------------------------------------------------------------------------
(* BestResponse.solve_game *)

\* (a sweep that trains the first node only)
RECURSIVE SweepsFirstNode(_, _)
SweepsFirstNode(level, high) ==
    IF level >= high THEN <<>>
    ELSE <<(<<NodesInOrder[1], level>>)>> \o SweepsFirstNode(level + 1, high)

\* lines 116-119: for level in np.arange(1, high_level), every node in order
RECURSIVE Sweeps(_, _)
Sweeps(level, high) ==
    IF level >= high THEN <<>>
    ELSE [i \in 1..Len(NodesInOrder) |-> <<NodesInOrder[i], level>>]
         \o Sweeps(level + 1, high)

\* (a final pass that takes every node)
InFinalPassAll(node, high) == node.Level <= high
\* line 122: the test of the final pass
InFinalPass(node, high) == node.Level = high

\* lines 120-124: the nodes in order that pass the test, at high_level
RECURSIVE FinalFrom(_, _, _)
FinalFrom(G, i, high) ==
    IF i > Len(NodesInOrder) THEN <<>>
    ELSE (IF InFinalPass(G[NodesInOrder[i]], high)
          THEN <<(<<NodesInOrder[i], high>>)>> ELSE <<>>)
         \o FinalFrom(G, i + 1, high)

\* the train_node calls of solve_game, <<nodename, level>>, in program order
Schedule(G, high) == Sweeps(1, high) \o FinalFrom(G, 1, high)

\* (the promotion of the seeded policy)
PromoteLevel0(node) ==
    [node EXCEPT !.CPT = node.LevelCPT[Key(0)], !.shared = Key(0)]
\* lines 125-129 on one node: the CPT becomes the very array stored under
\* the node's own level
Promote(node) ==
    [node EXCEPT !.CPT = node.LevelCPT[Key(node.Level)], !.shared = Key(node.Level)]

\* (an exception of train_node swallowed by solve_game)
AbortsNever(err) == FALSE
\* lines 119 and 123: self.train_node is called outside any try, so that an
\* exception it raises ends solve_game
Aborts(err) == err # "none"

\* solve_game(setCPT) is entered
SolveGame(setCPT) ==
    /\ br.live
    /\ pc.phase = "idle"
    /\ calls.solve < MaxSolve
    /\ pc' = [phase |-> "train", idx |-> 0, setCPT |-> setCPT, trained |-> {}]
    /\ ret' = Outcome("solve_game", "none", [setCPT |-> setCPT], "running", None)
    /\ calls' = Count("solve")
    /\ UNCHANGED <<graphs, br, est>>

\* the next train_node call of the running solve_game, lines 119 and 123;
\* an exception of train_node ends solve_game
SolveTrain ==
    LET sched == Schedule(graphs[br.G], br.high_level)
        job == sched[pc.idx + 1]
    IN /\ pc.phase = "train"
       /\ pc.idx < Len(sched)
       /\ \E out \in MceuOutcomes(job[1]) :
             TrainNodeCall(job[1], job[2], FALSE, out, "solve_game.train_node")
       /\ pc' = IF Aborts(ret'.err)
                THEN [pc EXCEPT !.phase = "idle"]
                ELSE [pc EXCEPT !.idx = @ + 1, !.trained = @ \cup {job}]
       /\ UNCHANGED <<br, calls>>

\* lines 126-129: the nodes are promoted one after the other, in order, from
\* the i-th on; the loop ends at the first node that lacks the entry of its
\* own level (KeyError), the nodes before it promoted
RECURSIVE PromoteFrom(_, _)
PromoteFrom(G, i) ==
    IF i > Len(NodesInOrder) THEN G
    ELSE LET n == NodesInOrder[i]
         IN IF Key(G[n].Level) \notin DOMAIN G[n].LevelCPT THEN G
            ELSE PromoteFrom([G EXCEPT ![n] = Promote(G[n])], i + 1)

\* the end of solve_game, lines 125-129: the promotion under setCPT
SolveReturn ==
    LET G == graphs[br.G]
        sched == Schedule(G, br.high_level)
    IN /\ pc.phase = "train"
       /\ pc.idx = Len(sched)
       /\ ret' = Outcome("solve_game", "none", [setCPT |-> pc.setCPT],
                         IF pc.setCPT /\ \E n \in DOMAIN G :
                                           Key(G[n].Level) \notin DOMAIN G[n].LevelCPT
                         THEN "KeyError" ELSE "none", None)
       /\ graphs' = IF pc.setCPT
                    THEN [graphs EXCEPT ![br.G] = PromoteFrom(G, 1)]
                    ELSE graphs
       /\ pc' = [pc EXCEPT !.phase = "idle"]
       /\ UNCHANGED <<br, est, calls>>

---------------------------------------------------------------------------
(* Specification of a BestResponse session on a game *)

\* defaults of br_dict
Delta == 20
Tol == 30

\* an L0Dist directive: 'uniform', None, or an array of the node's CPT shape
L0Uniform == [kind |-> "uniform", array |-> <<>>]
L0None == [kind |-> "None", array |-> <<>>]
L0Array(n) == [kind |-> "ndarray",
               array |-> PureCPT(<<NConf(n), K(n)>>, [i \in 1..NConf(n) |-> K(n) - 1])]

\* an array whose last axis is one longer than the node's space
L0Mismatched(n) ==
    [kind |-> "ndarray",
     array |-> PureCPT(<<NConf(n), K(n) + 1>>, [i \in 1..NConf(n) |-> K(n)])]

\* br_dict(G, N, Level, L0Dist, delta, tol, beta): the configuration table
BrDict(Level, L0Dist) ==
    [p \in {Players[i] : i \in 1..Len(Players)} |->
        SetAttrs([Level |-> Level[p], delta |-> Delta],
                 [n \in {Partition(p)[i] : i \in 1..Len(Partition(p))} |->
                    [L0Dist |-> L0Dist[n], N |-> 10, tol |-> Tol, beta |-> 1]])]

PlayerSet == {Players[i] : i \in 1..Len(Players)}
LevelChoices == [PlayerSet -> 0..MaxLevel]
\* br_dict is given one L0Dist for all nodes: 'uniform', None, or arrays, of
\* the shape of the nodes' CPTs or of another shape
L0Choices == {[n \in DNodes |-> L0Uniform], [n \in DNodes |-> L0None],
              [n \in DNodes |-> L0Array(n)], [n \in DNodes |-> L0Mismatched(n)]}

\* games a caller may hand to BestResponse: new nodes, nodes given a uniform
\* CPT, and the graph of an earlier level-0 session
EarlierSpecs == BrDict([p \in PlayerSet |-> 0], [n \in DNodes |-> L0Array(n)])
SolvedGame == [n \in DNodes |->
                 SetL0CPT(NewAttributes(UniformGame[n], n, EarlierSpecs, FALSE),
                          n, EarlierSpecs)]
InitGames == {FreshGame, UniformGame, SolvedGame}

Init ==
    /\ graphs \in {[g \in {"caller"} |-> game] : game \in InitGames}
    /\ br = NoSession
    /\ pc = Idle
    /\ ret = NoCall
    /\ est = NoEst
    /\ calls = [gen |-> 0, train |-> 0, solve |-> 0]

Next ==
    \/ \E Level \in LevelChoices, L0Dist \in L0Choices, logit \in BOOLEAN :
          NewBestResponse("caller", BrDict(Level, L0Dist), logit)
    \/ \E n \in DNodes, level \in 1..MaxLevel, setCPT \in BOOLEAN :
          TrainNode(n, level, setCPT)
    \/ \E setCPT \in BOOLEAN : SolveGame(setCPT)
    \/ SolveTrain
    \/ SolveReturn

Spec == Init /\ [][Next]_vars

---------------------------------------------------------------------------
(* Specification of a session whose caller trains, solves and also         *)
(* perturbs, by slivers, the CPTs of the nodes of the solver's graph br.G  *)

\* node.perturbCPT(noise, sliver=...) on a node of br.G
OwnedPerturb ==
    /\ br.live
    /\ \E n \in DNodes :
          \E noise \in Noises, sl \in Slivers(n), setCPT \in BOOLEAN :
              PerturbCPT(br.G, n, noise, sl, setCPT)

\* the caller makes at most MaxOwnedCalls calls in a session, of train_node,
\* solve_game and perturbCPT together
MoreOwnedCalls == calls.gen + calls.train + calls.solve < MaxOwnedCalls

NextOwned ==
    \/ \E Level \in LevelChoices, L0Dist \in L0Choices, logit \in BOOLEAN :
          NewBestResponse("caller", BrDict(Level, L0Dist), logit)
    \/ /\ MoreOwnedCalls
       /\ \E n \in DNodes, level \in 1..MaxLevel, setCPT \in BOOLEAN :
             TrainNode(n, level, setCPT)
    \/ /\ MoreOwnedCalls
       /\ \E setCPT \in BOOLEAN : SolveGame(setCPT)
    \/ SolveTrain
    \/ SolveReturn
    \/ /\ MoreOwnedCalls
       /\ OwnedPerturb

SpecOwned == Init /\ [][NextOwned]_vars

---------------------------------------------------------------------------
(* Vocabulary of the properties *)

\* the graph the solver works on, and the caller's graph
Owned == graphs[br.G]
Caller == graphs["caller"]
\* the Level Policy Store of node n of the solver's graph
Store(n) == Owned[n].LevelCPT
Holds(n, level) == Key(level) \in DOMAIN Store(n)

\* this step is a call of train_node, directly or from solve_game; ret' has
\* its node and level
TrainCall ==
    \/ ret'.op = "train_node" /\ calls'.train # calls.train
    \/ ret'.op = "solve_game.train_node" /\ pc.phase = "train"
\* solve_game has returned normally and nothing was called since
Solved == ret.op = "solve_game" /\ ret.err = "none" /\ pc.phase = "idle"

\* the Level Policy Stores of a graph
StoresOf(G) == [n \in DOMAIN G |-> G[n].LevelCPT]

SpaceSet(n) == {NodeSpace(n)[i] : i \in 1..K(n)}
SumsToOne(cpt) == \A i \in 1..Len(cpt) : RowSum(cpt[i]) = One

---------------------------------------------------------------------------
(* Properties *)

\* C1: train_node(nodename, n) raises the missing-lower-level error naming
\* level n-1 and writes nothing whenever some decision node has no
\* 'Level<n-1>' entry; once every node has one it does not raise that error
\* and, when it returns, the named node has a 'Level<n>' entry.
C1_MissingLowerLevelRaises ==
    [][TrainCall =>
        LET level == ret'.arg.level
        IN IF \E m \in DNodes : ~Holds(m, level - 1)
           THEN ret'.err = "KeyError" /\ ret'.val = level - 1 /\ graphs' = graphs
           ELSE /\ ret'.err # "KeyError"
                /\ ret'.err = "none" =>
                      Key(level) \in DOMAIN graphs'[br.G][ret'.node].LevelCPT]_vars

\* C2: when train_node(nodename, n) invokes the estimator and every decision
\* node holds 'Level<n-1>', every node's CPT in the scratch copy is that
\* node's 'Level<n-1>' entry.
C2_ScratchHoldsLowerLevel ==
    [][(TrainCall /\ ret'.err # "KeyError"
            /\ \A m \in DNodes : Holds(m, ret'.arg.level - 1)) =>
        \A m \in DNodes :
            est'.live[m] = Store(m)[Key(ret'.arg.level - 1)]]_vars

\* C3: in solve_game a train_node call at level n+1 (n >= 1) starts only
\* after solve_game has written 'Level<n>' of every decision node, and no
\* call is at a level below one already trained.
C3_LevelsSerialized ==
    [][(ret'.op = "solve_game.train_node" /\ pc.phase = "train") =>
        LET level == ret'.arg.level
        IN /\ level >= 2 => \A m \in DNodes : <<m, level - 1>> \in pc.trained
           /\ \A job \in pc.trained : job[2] <= level]_vars
\* a training at level 2 or above has completed inside solve_game
C3_Witness ==
    pc.phase = "train" /\ \E job \in pc.trained : job[2] >= 2

\* C4: when solve_game has returned, the nodes it trained at high_level are
\* exactly the nodes whose target level is high_level; each of them holds
\* 'Level<high_level>', and a node with a lower target holds none (unless a
\* direct train_node call of the session wrote one).
C4_FinalPassOnlyHighLevel ==
    Solved =>
        \A n \in DNodes :
            IF Owned[n].Level = br.high_level
            THEN <<n, br.high_level>> \in pc.trained /\ Holds(n, br.high_level)
            ELSE /\ <<n, br.high_level>> \notin pc.trained
                 /\ calls.train = 0 => ~Holds(n, br.high_level)
\* solve_game has returned for players with two different target levels
C4_Witness ==
    /\ Solved
    /\ calls.train = 0
    /\ \E n, m \in DNodes :
          /\ Owned[n].Level < br.high_level /\ Holds(n, Owned[n].Level)
          /\ Owned[m].Level = br.high_level /\ Holds(m, br.high_level)

\* C5: a node holds 'Level<n>' (n >= 1) only if it holds 'Level<n-1>': the
\* levels held form a contiguous range from Level0.
C5_LevelsContiguous ==
    br.live =>
        \A n \in DNodes : \A level \in 1..MaxLevel :
            Holds(n, level) => Holds(n, level - 1)

\* C6: a Level Policy Store entry, once there, is never replaced or changed,
\* neither by the seeding of the constructor nor by train_node or solve_game.
C6_StoreWriteOnce ==
    [][br'.live =>
        \A n \in DNodes :
            LET before == IF br.live THEN Owned[n] ELSE Caller[n]
                after == graphs'[br'.G][n].LevelCPT
            IN "LevelCPT" \in DOMAIN before =>
                  \A k \in DOMAIN before.LevelCPT :
                      k \in DOMAIN after /\ after[k] = before.LevelCPT[k]]_vars

\* C7: constructing a BestResponse on G and calling train_node and solve_game
\* leaves G as it was: its nodes' attributes, CPTs and values.
C7_CallerGraphUnchanged ==
    [][graphs'["caller"] = graphs["caller"]]_vars
\* a direct train_node call and a solve_game with setCPT have both been made
C7_Witness ==
    Solved /\ ret.arg.setCPT /\ calls.train > 0 /\ Caller \in InitGames

\* C8: a node is constructed with an all-zero CPT, and on a node whose CPT is
\* all zero every call of prob, logprob or draw_value raises the error that
\* names the node and changes nothing; such a call returns only on a node
\* whose CPT has been populated.
C8_ZeroCPTRejected ==
    [][/\ \A n \in DNodes : ~Any(NewNode(n).CPT)
       /\ (ret'.op \in {"prob", "logprob", "draw_value"} /\ ~Any(Caller[ret'.node].CPT)) =>
             /\ ret'.err = IF ret'.op = "draw_value" THEN "AttributeError"
                           ELSE "RuntimeError"
             /\ graphs' = graphs]_vars
\* logprob was refused on a node whose CPT is all zero
C8_Witness ==
    ret.op = "logprob" /\ ret.err = "RuntimeError" /\ ~Any(Caller[ret.node].CPT)

\* C9: a node's current value is always a member of its space: it starts as
\* the first element, set_value(v) sets it to v when v is in the space and
\* otherwise raises the error naming the node and changes nothing, and
\* draw_value changes it only when setvalue is asked, to the value drawn.
C9_ValueInSpace ==
    [][/\ \A n \in DNodes :
            /\ NewNode(n).value = NodeSpace(n)[1]
            /\ Caller[n].value \in SpaceSet(n)
            /\ graphs'["caller"][n].value \in SpaceSet(n)
       /\ ret'.op = "set_value" =>
             IF ret'.arg.newvalue \in SpaceSet(ret'.node)
             THEN /\ ret'.err = "none"
                  /\ graphs' = PutNode("caller", ret'.node,
                        [Caller[ret'.node] EXCEPT !.value = ret'.arg.newvalue])
             ELSE ret'.err = "ValueError" /\ graphs' = graphs
       /\ ret'.op = "draw_value" =>
             IF ret'.err = "none" /\ ret'.arg.setvalue
             THEN /\ ret'.val \in SpaceSet(ret'.node)
                  /\ graphs' = PutNode("caller", ret'.node,
                        [Caller[ret'.node] EXCEPT !.value = ret'.val])
             ELSE graphs' = graphs]_vars

\* C10: after uniformCPT, randomCPT(mixed=True) or perturbCPT(mixed=True),
\* whole array or sliver, any noise, from any CPT the node can have, every
\* trailing-axis slice of the resulting CPT sums to 1.
C10_RowsSumToOne ==
    [][(\/ ret'.op = "uniformCPT"
        \/ /\ ret'.op \in {"randomCPT", "perturbCPT"}
           /\ ret'.arg.mixed
           /\ ret'.err = "none") =>
        SumsToOne(IF ret'.arg.setCPT THEN graphs'["caller"][ret'.node].CPT
                  ELSE ret'.val)]_vars

\* C11: on a node whose CPT is populated, draw_value returns a member of the
\* node's space for every parent configuration and every draw; with mode=True
\* it is the element at the first arg-max index of the selected slice.
C11_DrawReturnsMember ==
    [][(ret'.op = "draw_value" /\ Any(Caller[ret'.node].CPT)) =>
        /\ ret'.err = "none"
        /\ ret'.val \in SpaceSet(ret'.node)
        /\ ret'.arg.mode =>
              LET row == Caller[ret'.node].CPT[ret'.arg.indo]
              IN \E j \in 1..Len(row) :
                    /\ ret'.val = NodeSpace(ret'.node)[j]
                    /\ \A h \in 1..Len(row) : RGeq(row[j], row[h])
                    /\ \A h \in 1..(j - 1) : RGt(row[j], row[h])]_vars

\* C12: an explicit Level-0 prior whose shape differs from the shape of the
\* node's CPT is refused by the seeding: after the construction no node holds
\* a 'Level0' entry of a shape other than its CPT's.
C12_MismatchedPriorRejected ==
    [][ret'.op = "__init__" =>
        \A n \in DNodes :
            LET node == graphs'[br'.G][n]
            IN Key(0) \in DOMAIN node.LevelCPT =>
                  Shape(node.LevelCPT[Key(0)]) = <<NConf(n), K(n)>>]_vars

\* C13: perturbCPT(noise, mixed=False) raises an error for every noise, with
\* or without a sliver, with setCPT true or false; it never returns and it
\* leaves the node as it was.
C13_PurePerturbFails ==
    [][(ret'.op = "perturbCPT" /\ ~ret'.arg.mixed) =>
        /\ ret'.err # "none"
        /\ graphs' = graphs]_vars
\* a pure perturbation of a whole populated CPT with noise 0 was refused
C13_Witness ==
    /\ ret.op = "perturbCPT" /\ ~ret.arg.mixed /\ ret.err = "TypeError"
    /\ ret.arg.noise = Zero /\ ret.arg.setCPT
    /\ Any(Caller[ret.node].CPT)

\* C14: when solve_game(setCPT=True) returns, the live CPT of every node is
\* the entry of its store at the node's own target level, whatever the target
\* levels are; solve_game(setCPT=False) changes no live CPT of its graph.
C14_PromotesOwnLevel ==
    [][/\ (pc.phase = "train" /\ pc.setCPT
              /\ ret'.op = "solve_game" /\ ret'.err = "none") =>
            \A n \in DNodes :
                LET node == graphs'[br.G][n]
                IN node.CPT = node.LevelCPT[Key(node.Level)]
       /\ ((pc.phase = "train" /\ ~pc.setCPT)
              \/ (pc'.phase = "train" /\ ~pc'.setCPT)) =>
            \A n \in DNodes : graphs'[br.G][n].CPT = Owned[n].CPT]_vars
\* solve_game(setCPT=True) has returned for a level-0 player and a player of
\* a higher level, and has changed the live CPT of both their nodes
C14_Witness ==
    /\ Solved /\ ret.arg.setCPT
    /\ \E n, m \in DNodes :
          /\ Owned[n].Level = 0 /\ Owned[m].Level >= 1
          /\ Owned[n].CPT # Caller[n].CPT
          /\ Owned[m].CPT # Caller[m].CPT

\* C15: when the estimator raises during train_node, the error reaches the
\* caller and the call changes no store entry and no live CPT; inside
\* solve_game the sweep stops there: no further train_node call and no
\* promotion follow.
C15_EstimatorFailureAborts ==
    [][/\ ret'.err = "EstimatorError" =>
            /\ ret'.op \in {"train_node", "solve_game.train_node"}
            /\ graphs' = graphs
            /\ pc'.phase = "idle"
       /\ (ret.op = "solve_game.train_node" /\ ret.err = "EstimatorError") =>
            /\ ret'.op # "solve_game.train_node"
            /\ ret'.op = "solve_game" => ret'.err = "running"
            /\ pc'.trained = pc.trained \/ pc'.trained = {}]_vars
\* the estimator has failed inside a solve_game(setCPT=True) that had already
\* trained a node
C15_Witness ==
    /\ ret.op = "solve_game.train_node" /\ ret.err = "EstimatorError"
    /\ pc.phase = "idle" /\ pc.setCPT /\ pc.trained # {}

\* C16: within one level, training node A and then node B leaves the same
\* Level Policy Stores as training B and then A, for any two distinct nodes,
\* any deterministic estimator, and with or without setCPT.
C16_SameLevelCommutes ==
    (br.live /\ pc.phase = "idle") =>
        \A A, B \in DNodes : \A level \in 1..MaxLevel :
        \A setA, setB \in BOOLEAN : \A e \in Estimators(Owned) :
            (A # B /\ \A m \in DNodes : Holds(m, level - 1)) =>
                StoresOf(TrainOnce(TrainOnce(Owned, br.logit, A, level, setA, e),
                                   br.logit, B, level, setB, e))
                = StoresOf(TrainOnce(TrainOnce(Owned, br.logit, B, level, setB, e),
                                     br.logit, A, level, setA, e))

\* C17: a train_node(nodename, n, setCPT) that returns changes, in the
\* solver's graph, the 'Level<n>' entry of the named node and nothing else:
\* no other node, no other entry, no value, and the live CPT of the named
\* node only when setCPT is true.
C17_TrainWritesOneEntry ==
    [][(TrainCall /\ ret'.err = "none") =>
        LET n == ret'.node
            k == Key(ret'.arg.level)
            old == Owned[n]
            new == graphs'[br.G][n]
        IN /\ \A m \in DNodes \ {n} : graphs'[br.G][m] = Owned[m]
           /\ DOMAIN new = DOMAIN old
           /\ \A a \in (DOMAIN old) \ {"LevelCPT", "CPT", "shared"} : new[a] = old[a]
           /\ DOMAIN new.LevelCPT = (DOMAIN old.LevelCPT) \cup {k}
           /\ \A j \in (DOMAIN old.LevelCPT) \ {k} : new.LevelCPT[j] = old.LevelCPT[j]
           /\ new.CPT = IF ret'.arg.setCPT THEN new.LevelCPT[k] ELSE old.CPT]_vars
\* train_node without setCPT has stored a policy other than the live CPT
C17_Witness ==
    /\ ret.op = "train_node" /\ ret.err = "none" /\ ~ret.arg.setCPT
    /\ Holds(ret.node, ret.arg.level)
    /\ Store(ret.node)[Key(ret.arg.level)] # Owned[ret.node].CPT

\* C18: the entries of a Level Policy Store are arrays of their own: a
\* 'Level0' entry seeded from an unspecified L0Dist and a policy promoted by
\* solve_game(setCPT=True) are copies, so that a change made in place to a
\* node's live CPT (perturbCPT with a sliver) changes no store entry.
C18_StoreIndependentOfLiveCPT ==
    [][(br.live /\ ret'.op = "perturbCPT") =>
        StoresOf(graphs'[br.G]) = StoresOf(Owned)]_vars

\* C19: the CPT made by randomCPT(mixed=True), and the one made by
\* perturbCPT(noise > 0, mixed=True) over the whole array, gives a strictly
\* positive probability to every value of the space in every parent
\* configuration, whatever integers are drawn.
C19_MixedStrictlyPositive ==
    [][(/\ ret'.op \in {"randomCPT", "perturbCPT"}
        /\ ret'.err = "none"
        /\ ret'.arg.mixed
        /\ ret'.op = "perturbCPT" =>
              (DOMAIN ret'.arg.sliver = {} /\ ret'.arg.noise # Zero)) =>
        LET z == IF ret'.arg.setCPT THEN graphs'["caller"][ret'.node].CPT
                 ELSE ret'.val
        IN \A i \in 1..Len(z) : \A j \in 1..Len(z[i]) : RGt(z[i][j], Zero)]_vars

\* C20: uniformCPT, randomCPT and perturbCPT called with setCPT=False return
\* the array they made and leave the node's live CPT as it was, perturbCPT
\* with a sliver included; perturbCPT with a sliver and setCPT=True changes
\* the slice the sliver selects and no other.
C20_ReturnOnlyLeavesCPT ==
    [][ret'.op \in {"uniformCPT", "randomCPT", "perturbCPT"} =>
        /\ ~ret'.arg.setCPT =>
              /\ graphs' = graphs
              /\ ret'.err = "none" => ret'.val # None
        /\ (ret'.op = "perturbCPT" /\ ret'.arg.setCPT /\ ret'.err = "none"
                /\ DOMAIN ret'.arg.sliver # {}) =>
              LET n == ret'.node
                  indo == SliverConf(Caller, n, ret'.arg.sliver)[2]
              IN \A i \in 1..Len(Caller[n].CPT) :
                    i # indo => graphs'["caller"][n].CPT[i] = Caller[n].CPT[i]]_vars

\* C21: draw_value with mode=False never returns an element whose CPT entry
\* in the selected slice is zero, whatever the uniform draw in [0, 1), the
\* draw 0 included, when the selected slice sums to 1.
C21_DrawnValueHasMass ==
    [][(/\ ret'.op = "draw_value"
        /\ ret'.err = "none"
        /\ ~ret'.arg.mode
        /\ RowSum(Caller[ret'.node].CPT[ret'.arg.indo]) = One) =>
        Caller[ret'.node].CPT[ret'.arg.indo]
            [IndexIn(NodeSpace(ret'.node), ret'.val)] # Zero]_vars

\* C22: after solve_game, whatever target levels the players were given,
\* every node's Level Policy Store holds the levels 0 to the node's own
\* target level and no other: no 'Level<m>' with m above the target.
C22_StoreUpToOwnLevel ==
    (Solved /\ calls.train = 0) =>
        \A n \in DNodes : \A level \in 0..MaxLevel :
            Holds(n, level) <=> level <= Owned[n].Level

=============================================================================
